---- MODULE Spec2Model ----
(***************************************************************************)
(* Formatorbit bundled plugins: the crypto rate provider with its module   *)
(* level cache (crypto.py), the sample decoders (custom_decoder.py), the   *)
(* checksum traits (checksums.py) and the expression functions             *)
(* (math_ext.py), together with the host steps that call them.             *)
(***************************************************************************)
EXTENDS Integers, Sequences, FiniteSets, TLC

VARIABLES
    \* crypto.py
    clock,        \* what time.time() returns now
    ticks,        \* how many times the clock has advanced
    calls,        \* how many provider calls the host has made
    cache,        \* _cache
    cache_time,   \* _cache_time
    pc,           \* position of each requester inside btc_rate/eth_rate/sol_rate
    now,          \* the local `now` of each requester's _fetch_rates call
    code,         \* which provider each requester called
    data,         \* the dict a requester built from the response, until its fetch is complete
    ret,          \* what the provider call returned (or raised) to the host
    expect,       \* history: what a fetch still within its duration had cached for
                  \* the code when the call began (NoResult if there is none)
    lastOK,       \* history: the successful fetch with the greatest time so far
    gotRate,      \* history: codes for which some call has returned a rate
    \* custom_decoder.py and the host's dispatch
    registry,     \* decoders in registration order
    input_str,    \* the raw input
    output,       \* ranked interpretations returned by dispatch
    faults,       \* fault records of the dispatch
    dispatched,   \* has dispatch run
    \* checksums.py and the host's trait engine
    value,        \* the resolved value
    results,      \* per trait id: what the trait function returned
    hashed,       \* trait ids whose hash function was actually called
    \* math_ext.py and the host's expression call
    call,         \* the expression call: function id and arguments
    result        \* its outcome

cacheVars == <<clock, ticks, calls, cache, cache_time, pc, now, code, data, ret, expect,
               lastOK, gotRate>>
decVars == <<registry, input_str, output, faults, dispatched>>
traitVars == <<value, results, hashed>>
exprVars == <<call, result>>
vars == <<cacheVars, decVars, traitVars, exprVars>>

(***************************************************************************)
(* crypto.py                                                               *)
(***************************************************************************)

\* number of concurrent callers of the rate providers
NumRequesters == 2
\* how many times the clock advances
MaxTicks == 2
\* how many provider calls the host makes
MaxCalls == 3

CACHE_DURATION == 60

Requesters == 1..NumRequesters

\* the three registered currency providers
Codes == {"BTC", "ETH", "SOL"}

\* the CoinGecko id each provider looks up
CoinId(c) == CASE c = "BTC" -> "bitcoin" [] c = "ETH" -> "ethereum" [] c = "SOL" -> "solana"

CoinIds == {CoinId(c) : c \in Codes}

\* Python's None, and a present number r
None == <<>>
Some(r) == <<r>>

\* rates the upstream may quote
Rates == {100, 200}

\* a Python dict over the currency codes: its keys and what .get returns
EmptyDict == [keys |-> {}, get |-> [c \in Codes |-> None]]

Truthy(d) == d.keys # {}

\* one entry of the decoded JSON object, by coin id:
\*   absent  - the key is missing:            data.get(id, {}) is {}
\*   nousd   - an object without "usd":       .get("usd") is None
\*   nonobj  - a value that is not an object: .get raises AttributeError
\*   usd     - an object with "usd": rate
Entry(kind, usd) == [kind |-> kind, usd |-> usd]

Entries == {Entry("absent", None), Entry("nousd", None), Entry("nonobj", None)}
             \cup {Entry("usd", Some(r)) : r \in Rates}

\* JSON objects the upstream may answer with: one rate for all coins, at most
\* one entry deviating
Objects ==
    {o \in [CoinIds -> Entries] :
        /\ Cardinality({i \in CoinIds : o[i].kind # "usd"}) <= 1
        /\ \A i, j \in CoinIds : o[i].kind = "usd" /\ o[j].kind = "usd" => o[i] = o[j]}

\* what urlopen(...).read().decode() followed by json.loads can do
\*   URLError            connection refused, DNS failure, connect timeout, HTTP status
\*   TimeoutError        socket timeout while reading the response
\*   UnicodeDecodeError  the body is not valid UTF-8 text
\*   JSONDecodeError     the body is not valid JSON
\*   notobject           valid JSON that is not an object (list, number, null)
\*   object              a JSON object
Response(kind, obj) == [kind |-> kind, obj |-> obj]

NoObject == [i \in CoinIds |-> Entry("absent", None)]

Responses ==
    {Response(k, NoObject) :
        k \in {"URLError", "TimeoutError", "UnicodeDecodeError", "JSONDecodeError",
               "notobject"}}
      \cup {Response("object", o) : o \in Objects}

\* the exception the try body raises for a response, "none" if it completes
Raises(resp) ==
    IF resp.kind \in {"URLError", "TimeoutError", "UnicodeDecodeError", "JSONDecodeError"}
    THEN resp.kind
    ELSE IF resp.kind = "notobject" THEN "AttributeError"
    ELSE IF \E i \in CoinIds : resp.obj[i].kind = "nonobj" THEN "AttributeError"
    ELSE "none"

\* except (URLError, json.JSONDecodeError, KeyError)
Caught(exc) == exc \in {"URLError", "JSONDecodeError", "KeyError"}

\* the dict assigned to _cache from the decoded object
NewCache(obj) == [keys |-> Codes, get |-> [c \in Codes |-> obj[CoinId(c)].usd]]

\* results of a provider call as the host sees them
NoResult == <<"pending">>
Unavailable == <<"None">>
Quote(r) == <<"rate", r, "USD">>
Raised(exc) == <<"raised", exc>>

\* rate = rates.get(code); None if rate is None else (rate, "USD")
RateResult(rates, c) ==
    IF rates.get[c] = None THEN Unavailable ELSE Quote(rates.get[c][1])

IsRate(r) == r[1] = "rate"

NoFetch == [t |-> -1, rates |-> EmptyDict]

\* a provider function is called: now = time.time()
Begin(p, c) ==
    /\ pc[p] \in {"idle", "done", "raised"}
    /\ calls < MaxCalls
    /\ calls' = calls + 1
    /\ pc' = [pc EXCEPT ![p] = "check"]
    /\ now' = [now EXCEPT ![p] = clock]
    /\ code' = [code EXCEPT ![p] = c]
    /\ ret' = [ret EXCEPT ![p] = NoResult]
    /\ expect' = [expect EXCEPT ![p] =
                    IF lastOK.t >= 0 /\ (clock - lastOK.t) < CACHE_DURATION
                    THEN RateResult(lastOK.rates, c) ELSE NoResult]
    /\ UNCHANGED <<clock, ticks, cache, cache_time, data, lastOK, gotRate, decVars, traitVars,
                   exprVars>>

\* if _cache and (now - _cache_time) < CACHE_DURATION
Check(p) ==
    /\ pc[p] = "check"
    /\ pc' = [pc EXCEPT ![p] =
                IF Truthy(cache) /\ (now[p] - cache_time) < CACHE_DURATION
                THEN "hit" ELSE "fetch"]
    /\ UNCHANGED <<clock, ticks, cache, cache_time, now, code, data, ret, expect,
                   lastOK, gotRate, calls, decVars, traitVars, exprVars>>

\* the provider returns to the host with the rates dict _fetch_rates handed it
Return(p, rates) ==
    /\ pc' = [pc EXCEPT ![p] = "done"]
    /\ ret' = [ret EXCEPT ![p] = RateResult(rates, code[p])]
    /\ gotRate' = [gotRate EXCEPT ![code[p]] = @ \/ IsRate(RateResult(rates, code[p]))]
    /\ now' = [now EXCEPT ![p] = 0]

\* return _cache (cache hit)
ReturnCached(p) ==
    /\ pc[p] = "hit"
    /\ Return(p, cache)
    /\ UNCHANGED <<clock, ticks, calls, cache, cache_time, code, data, expect, lastOK,
                   decVars,
                   traitVars, exprVars>>

\* the try block runs on the upstream's response up to and including
\* the assignment to _cache, or leaves through an exception
FetchDone(p, resp) ==
    /\ pc[p] = "fetch"
    /\ IF Raises(resp) = "none"
       THEN /\ cache' = NewCache(resp.obj)
            /\ data' = [data EXCEPT ![p] = NewCache(resp.obj)]
            /\ pc' = [pc EXCEPT ![p] = "stored"]
            /\ UNCHANGED <<ret, gotRate, now>>
       ELSE IF Caught(Raises(resp))
       THEN /\ Return(p, cache)
            /\ UNCHANGED <<cache, data>>
       ELSE /\ pc' = [pc EXCEPT ![p] = "raised"]
            /\ ret' = [ret EXCEPT ![p] = Raised(Raises(resp))]
            /\ now' = [now EXCEPT ![p] = 0]
            /\ UNCHANGED <<cache, data, gotRate>>
    /\ UNCHANGED <<clock, ticks, calls, cache_time, code, expect, lastOK, decVars,
                   traitVars, exprVars>>

\* _cache_time = now
StoreTime(p) ==
    /\ pc[p] = "stored"
    /\ cache_time' = now[p]
    /\ pc' = [pc EXCEPT ![p] = "fresh"]
    /\ lastOK' = IF now[p] >= lastOK.t THEN [t |-> now[p], rates |-> data[p]] ELSE lastOK
    /\ data' = [data EXCEPT ![p] = EmptyDict]
    /\ UNCHANGED <<clock, ticks, calls, cache, now, code, ret, expect, gotRate, decVars,
                   traitVars, exprVars>>

\* return _cache (after a successful fetch)
ReturnFresh(p) ==
    /\ pc[p] = "fresh"
    /\ Return(p, cache)
    /\ UNCHANGED <<clock, ticks, calls, cache, cache_time, code, data, expect, lastOK,
                   decVars,
                   traitVars, exprVars>>

\* time passes: by turns a moment and just under the cache duration, so that
\* the clock stands 1, CACHE_DURATION - 1 and CACHE_DURATION after a reading
TickStep(n) == IF n % 2 = 0 THEN 1 ELSE CACHE_DURATION - 1

Tick ==
    /\ ticks < MaxTicks
    /\ clock' = clock + TickStep(ticks)
    /\ ticks' = ticks + 1
    /\ UNCHANGED <<calls, cache, cache_time, pc, now, code, data, ret, expect, lastOK, gotRate,
                   decVars, traitVars, exprVars>>

CacheInit ==
    /\ clock = 1
    /\ ticks = 0
    /\ calls = 0
    /\ cache = EmptyDict
    /\ cache_time = 0
    /\ pc = [p \in Requesters |-> "idle"]
    /\ now = [p \in Requesters |-> 0]
    /\ code = [p \in Requesters |-> "BTC"]
    /\ data = [p \in Requesters |-> EmptyDict]
    /\ ret = [p \in Requesters |-> NoResult]
    /\ expect = [p \in Requesters |-> NoResult]
    /\ lastOK = NoFetch
    /\ gotRate = [c \in Codes |-> FALSE]

\* one step of requester p
Step(p) ==
    \/ \E c \in Codes : Begin(p, c)
    \/ Check(p)
    \/ ReturnCached(p)
    \/ \E resp \in Responses : FetchDone(p, resp)
    \/ StoreTime(p)
    \/ ReturnFresh(p)

\* the host calls the providers from several threads
CacheNext ==
    \/ \E p \in Requesters : Step(p)
    \/ Tick

\* the host calls the providers one call at a time
SeqNext ==
    \/ Step(1)
    \/ Tick

DecIdle ==
    /\ registry = <<>>
    /\ input_str = <<>>
    /\ output = <<>>
    /\ faults = <<>>
    /\ dispatched = FALSE

TraitIdle ==
    /\ value = <<>>
    /\ results = <<>>
    /\ hashed = {}

ExprIdle ==
    /\ call = <<>>
    /\ result = <<>>

Init == CacheInit /\ DecIdle /\ TraitIdle /\ ExprIdle

Next == CacheNext

Spec == Init /\ [][Next]_vars

SeqSpec == Init /\ [][SeqNext]_vars

(***************************************************************************)
(* custom_decoder.py and the host's decoder dispatch                       *)
(***************************************************************************)

\* longest tail of an input after its prefix
MaxLen == 3
\* most decoders in a registry
MaxDecoders == 3

\* text is a sequence of characters, a character a one-element name
Lower == <<"a", "b", "c", "d", "e", "f", "g", "h", "i", "j", "k", "l", "m",
           "n", "o", "p", "q", "r", "s", "t", "u", "v", "w", "x", "y", "z">>
Upper == <<"A", "B", "C", "D", "E", "F", "G", "H", "I", "J", "K", "L", "M",
           "N", "O", "P", "Q", "R", "S", "T", "U", "V", "W", "X", "Y", "Z">>

Range(f) == {f[i] : i \in DOMAIN f}

AlphabetSize == Len(Lower)

\* ord(c) - ord('a'), ord(c) - ord('A')
Offset(c, letters) == (CHOOSE i \in 1..AlphabetSize : letters[i] = c) - 1

\* string.ascii_letters, string.digits
ascii_letters == Range(Lower) \cup Range(Upper)
digits == {"0", "1", "2", "3", "4", "5", "6", "7", "8", "9"}

\* a letter outside ASCII (e with acute accent): str.isalpha holds of it
NonAsciiLetters == {"U+00E9"}

\* c.isalpha()
isalpha(c) == c \in ascii_letters \cup NonAsciiLetters

\* set(string.ascii_letters + string.digits + " .,!?'-\"")
valid_chars == ascii_letters \cup digits \cup {" ", ".", ",", "!", "?", "'", "-", "\""}

\* input_str.startswith(prefix)
startswith(str, pre) ==
    Len(str) >= Len(pre) /\ SubSeq(str, 1, Len(pre)) = pre

\* confidences in hundredths: 0.95 and 0.3
ExampleConfidence == 95
Rot13Confidence == 30

Interpretation(v, conf, desc, id) ==
    [value |-> v, confidence |-> conf, description |-> desc, source_decoder |-> id]

prefix == <<"E", "X", "A", "M", "P", "L", "E", ":">>

decode_example(str) ==
    IF ~startswith(str, prefix) THEN <<>>
    ELSE LET content == SubSeq(str, Len(prefix) + 1, Len(str))
         IN  <<Interpretation(content, ExampleConfidence,
                              <<"Example format: ">> \o content, "example-format")>>

\* the inner rot13 of decode_rot13, one character
rot13char(c) ==
    IF c \in Range(Lower) THEN Lower[((Offset(c, Lower) + 13) % AlphabetSize) + 1]
    ELSE IF c \in Range(Upper) THEN Upper[((Offset(c, Upper) + 13) % AlphabetSize) + 1]
    ELSE c

rot13(str) == [i \in 1..Len(str) |-> rot13char(str[i])]

\* sum(1 for c in input_str if c.isalpha())
letter_count(str) == Cardinality({i \in 1..Len(str) : isalpha(str[i])})

MinLetters == 3

\* decode_rot13 with the letter threshold one lower
decode_rot13_two_letters(str) ==
    IF letter_count(str) < MinLetters - 1 THEN <<>>
    ELSE IF ~(\A i \in 1..Len(str) : str[i] \in valid_chars) THEN <<>>
    ELSE IF rot13(str) = str THEN <<>>
    ELSE <<Interpretation(rot13(str), Rot13Confidence,
                          <<"ROT13 decoded: ">> \o rot13(str), "rot13-encoded")>>

decode_rot13(str) ==
    IF letter_count(str) < MinLetters THEN <<>>
    ELSE IF ~(\A i \in 1..Len(str) : str[i] \in valid_chars) THEN <<>>
    ELSE IF rot13(str) = str THEN <<>>
    ELSE <<Interpretation(rot13(str), Rot13Confidence,
                          <<"ROT13 decoded: ">> \o rot13(str), "rot13-encoded")>>

\* decoders other plugins register: one sure of itself, one that emits two
\* interpretations in rising order of confidence, one that raises
StubIds == {"stub-high", "stub-pair", "stub-fault"}

DecoderIds == {"example-format", "rot13-encoded"} \cup StubIds

StubDecode(id, str) ==
    CASE id = "stub-high" ->
            <<Interpretation(str, ExampleConfidence, <<"stub">>, id)>>
      [] id = "stub-pair" ->
            <<Interpretation(str, Rot13Confidence, <<"stub">>, id),
              Interpretation(str, ExampleConfidence, <<"stub">>, id)>>
      [] OTHER -> <<>>

\* does the decoder raise on this input
Faulty(id, str) == id = "stub-fault"

\* the interpretations a registered decoder contributes
Invoke(id, str) ==
    IF Faulty(id, str) THEN <<>>
    ELSE CASE id = "example-format" -> decode_example(str)
           [] id = "rot13-encoded" -> decode_rot13(str)
           [] OTHER -> StubDecode(id, str)

\* all emitted interpretations, in registration order
RECURSIVE Concatenate(_, _)
Concatenate(reg, str) ==
    IF reg = <<>> THEN <<>>
    ELSE Invoke(Head(reg), str) \o Concatenate(Tail(reg), str)

RECURSIVE Insert(_, _)
\* an insertion that puts x before the interpretations as confident as it is
InsertFirst(x, sorted) ==
    IF sorted = <<>> THEN <<x>>
    ELSE IF Head(sorted).confidence > x.confidence
         THEN <<Head(sorted)>> \o Insert(x, Tail(sorted))
         ELSE <<x>> \o sorted

\* x goes behind every interpretation at least as confident as it is
Insert(x, sorted) ==
    IF sorted = <<>> THEN <<x>>
    ELSE IF Head(sorted).confidence >= x.confidence
         THEN <<Head(sorted)>> \o Insert(x, Tail(sorted))
         ELSE <<x>> \o sorted

\* stable sort, descending by confidence
RECURSIVE Rank(_)
Rank(items) ==
    IF items = <<>> THEN <<>>
    ELSE Insert(items[Len(items)], Rank(SubSeq(items, 1, Len(items) - 1)))

\* inputs: nothing, the prefix, or the prefix in lower case, then a short tail
InputChars == {"a", "N", "1", "U+00E9"}

Prefixes == {<<>>, prefix, <<"e", "x", "a", "m", "p", "l", "e", ":">>}

Tails == UNION {[1..n -> InputChars] : n \in 0..MaxLen}

Inputs == {pre \o tail : pre \in Prefixes, tail \in Tails}

Registries ==
    {reg \in UNION {[1..n -> DecoderIds] : n \in 0..MaxDecoders} :
        \A i, j \in DOMAIN reg : reg[i] = reg[j] => i = j}

\* the host runs every registered decoder on the input and ranks what they emit
Dispatch ==
    /\ ~dispatched
    /\ output' = Rank(Concatenate(registry, input_str))
    /\ faults' = SelectSeq(registry, LAMBDA id : Faulty(id, input_str))
    /\ dispatched' = TRUE
    /\ UNCHANGED <<registry, input_str, cacheVars, traitVars, exprVars>>

DecInit ==
    /\ registry \in Registries
    /\ input_str \in Inputs
    /\ output = <<>>
    /\ faults = <<>>
    /\ dispatched = FALSE

DecStart == CacheInit /\ DecInit /\ TraitIdle /\ ExprIdle

DecNext == Dispatch

DecSpec == DecStart /\ [][DecNext]_vars

\* where a decoder stands in the registry
RegIndex(id) == CHOOSE i \in DOMAIN registry : registry[i] = id

\* C5: dispatch output is sorted by non-increasing confidence, and of two
\* interpretations of equal confidence the one of the earlier-registered
\* decoder comes first.
C5_RankedOutput ==
    dispatched =>
        \A i, j \in DOMAIN output :
            i < j =>
                /\ output[i].confidence >= output[j].confidence
                /\ output[i].confidence = output[j].confidence =>
                      RegIndex(output[i].source_decoder) <= RegIndex(output[j].source_decoder)

\* a dispatch whose output holds a tie between two decoders and a strict descent
C5_Witness ==
    /\ dispatched
    /\ \E i, j \in DOMAIN output :
          /\ i < j
          /\ output[i].confidence = output[j].confidence
          /\ output[i].source_decoder # output[j].source_decoder
    /\ \E i, j \in DOMAIN output : i < j /\ output[i].confidence > output[j].confidence

BothRegistered ==
    registry \in {<<"example-format", "rot13-encoded">>, <<"rot13-encoded", "example-format">>}

\* C6: with decode_example and decode_rot13 registered, an input that starts
\* with "EXAMPLE:" is ranked with decode_example's interpretation first, and an
\* input with fewer than 3 letters that does not start with it yields the empty
\* sequence and no fault.
C6_ExampleScenario ==
    (dispatched /\ BothRegistered) =>
        /\ startswith(input_str, prefix) =>
              /\ output # <<>>
              /\ output[1].source_decoder = "example-format"
              /\ output[1].confidence = ExampleConfidence
              /\ output[1].value = SubSeq(input_str, Len(prefix) + 1, Len(input_str))
        /\ (~startswith(input_str, prefix) /\ letter_count(input_str) < MinLetters) =>
              /\ output = <<>>
              /\ faults = <<>>

\* "EXAMPLE:" followed by three letters has been dispatched
C6_Witness ==
    /\ dispatched
    /\ BothRegistered
    /\ startswith(input_str, prefix)
    /\ letter_count(SubSeq(input_str, Len(prefix) + 1, Len(input_str))) = MinLetters
    /\ Len(output) = 1

(***************************************************************************)
(* checksums.py                                                            *)
(***************************************************************************)

\* the size limit written in each trait function
Crc32Limit == 10000000
Md5Limit == 10000000
Sha1Limit == 10000000
Sha256Limit == 1000000
Sha512Limit == 1000000
Blake2bLimit == 1000000

TraitIds == {"crc32", "md5", "sha1", "sha256", "sha512", "blake2b-256"}

\* a value is its Python type and, for the sized types, its length
TypeTags == {"bytes", "bytearray", "str", "int"}

Limits == {Crc32Limit, Md5Limit, Sha1Limit, Sha256Limit, Sha512Limit, Blake2bLimit}

Lengths == {0, 1} \cup UNION {{l - 1, l, l + 1} : l \in Limits}

Values == [type : TypeTags, len : Lengths]

\* the hex digest of the library's hash function, left uninterpreted
Digest(id, v) == <<id, v.len>>

\* what a trait function does: the guards of its body, then the hash call and
\* the formatted text. ret is the return value, hash whether the hash function ran
Checksum(v, limit, id) ==
    IF v.type # "bytes" THEN [ret |-> None, hash |-> FALSE]
    ELSE IF v.len > limit THEN [ret |-> None, hash |-> FALSE]
    ELSE [ret |-> Some(<<id, ": ", Digest(id, v)>>), hash |-> TRUE]

compute_crc32(v) == Checksum(v, Crc32Limit, "crc32")

compute_md5(v) == Checksum(v, Md5Limit, "md5")

compute_sha1(v) == Checksum(v, Sha1Limit, "sha1")

\* compute_sha256 with the size limit of compute_md5
compute_sha256_limit_of_md5(v) == Checksum(v, Md5Limit, "sha256")

compute_sha256(v) == Checksum(v, Sha256Limit, "sha256")

compute_sha512(v) == Checksum(v, Sha512Limit, "sha512")

compute_blake2b(v) == Checksum(v, Blake2bLimit, "blake2b-256")

TraitFunction(id, v) ==
    CASE id = "crc32" -> compute_crc32(v)
      [] id = "md5" -> compute_md5(v)
      [] id = "sha1" -> compute_sha1(v)
      [] id = "sha256" -> compute_sha256(v)
      [] id = "sha512" -> compute_sha512(v)
      [] id = "blake2b-256" -> compute_blake2b(v)

NotCalled == <<"not called">>

\* a trait function is called with the value
CallTrait(id) ==
    /\ results[id] = NotCalled
    /\ results' = [results EXCEPT ![id] = TraitFunction(id, value).ret]
    /\ hashed' = IF TraitFunction(id, value).hash THEN hashed \cup {id} ELSE hashed
    /\ UNCHANGED <<value, cacheVars, decVars, exprVars>>

TraitInit ==
    /\ value \in Values
    /\ results = [id \in TraitIds |-> NotCalled]
    /\ hashed = {}

TraitStart == CacheInit /\ DecIdle /\ TraitInit /\ ExprIdle

TraitNext == \E id \in TraitIds : CallTrait(id)

TraitSpec == TraitStart /\ [][TraitNext]_vars

\* the thresholds as the claim gives them
ClaimedThreshold(id) == IF id \in {"crc32", "md5", "sha1"} THEN 10000000 ELSE 1000000

\* C7: a checksum trait produces a result exactly when the value is a byte
\* sequence no longer than the trait's threshold; otherwise no hash is computed
\* and the trait contributes nothing.
C7_ChecksumGate ==
    \A id \in TraitIds :
        results[id] # NotCalled =>
            /\ results[id] # None <=>
                  (value.type = "bytes" /\ value.len <= ClaimedThreshold(id))
            /\ id \in hashed <=> results[id] # None

\* a byte sequence between the two thresholds: sha256 has skipped it, md5 has hashed it
C7_Witness ==
    /\ value.type = "bytes"
    /\ value.len = 1000001
    /\ results["sha256"] = None
    /\ results["md5"] # None
    /\ results["md5"] # NotCalled
    /\ hashed = {"md5"}

(***************************************************************************)
(* math_ext.py and the host's call of an expression function               *)
(***************************************************************************)

\* arguments are the numbers k / Denominator for k in -MaxNumerator..MaxNumerator
MaxNumerator == 5
\* most arguments in a call
MaxArgs == 2

Denominator == 2

Numbers == (0 - MaxNumerator)..MaxNumerator

\* int(n): truncation toward zero
int(n) == IF n >= 0 THEN n \div Denominator ELSE 0 - ((0 - n) \div Denominator)

abs(k) == IF k < 0 THEN 0 - k ELSE k

\* outcomes of a call: a number, Python's ValueError, which the evaluator
\* reports as DomainError, and TypeError, which it reports as ArityMismatch
Number(v) == [kind |-> "number", val |-> v]
ValueError == [kind |-> "DomainError", val |-> <<>>]
TypeError == [kind |-> "ArityMismatch", val |-> <<>>]
Pending == [kind |-> "pending", val |-> <<>>]

RECURSIVE Product(_)
Product(k) == IF k <= 1 THEN 1 ELSE k * Product(k - 1)

\* math.factorial without the test for a negative k
math_factorial_unchecked(k) == Number(Product(k))

\* math.factorial(k): ValueError for a negative k
math_factorial(k) == IF k < 0 THEN ValueError ELSE Number(Product(k))

factorial(n) == math_factorial(int(n))

RECURSIVE FibLoop(_, _, _)
FibLoop(a, b, i) == IF i = 0 THEN b ELSE FibLoop(b, a + b, i - 1)

fibonacci(n) == IF int(n) <= 1 THEN Number(int(n)) ELSE Number(FibLoop(0, 1, int(n) - 1))

\* math.gcd: the greatest common divisor of the absolute values, gcd(0, 0) = 0
RECURSIVE Euclid(_, _)
Euclid(a, b) == IF b = 0 THEN a ELSE Euclid(b, a % b)

math_gcd(a, b) == Euclid(abs(a), abs(b))

gcd(a, b) == Number(math_gcd(int(a), int(b)))

lcm(a, b) ==
    IF int(a) # 0 /\ int(b) # 0
    THEN Number(abs(int(a) * int(b)) \div math_gcd(int(a), int(b)))
    ELSE Number(0)

\* int(n**0.5)
Root(k) == CHOOSE r \in 0..k : r * r <= k /\ (r + 1) * (r + 1) > k

is_prime(n) ==
    IF int(n) < 2 THEN Number(0)
    ELSE IF \E i \in 2..Root(int(n)) : int(n) % i = 0 THEN Number(0)
    ELSE Number(1)

\* a real-valued library function applied to n / Denominator, left uninterpreted
Real(f, n) == Number(<<f, n>>)

\* math.sqrt: ValueError below zero
sqrt(n) == IF n < 0 THEN ValueError ELSE Real("sqrt", n)

\* math.log, math.log10: ValueError at and below zero
log(n) == IF n <= 0 THEN ValueError ELSE Real("log", n)

log10(n) == IF n <= 0 THEN ValueError ELSE Real("log10", n)

sin(n) == Real("sin", n)

cos(n) == Real("cos", n)

tan(n) == Real("tan", n)

Unary == {"factorial", "fib", "isPrime", "sqrt", "log", "log10", "sin", "cos", "tan"}
Binary == {"gcd", "lcm"}
FunctionIds == Unary \cup Binary

\* the number of declared parameters
Arity(f) == IF f \in Binary THEN 2 ELSE 1

\* calling the Python function with the arguments: TypeError unless their
\* number is the number of parameters
Apply(f, args) ==
    IF Len(args) # Arity(f) THEN TypeError
    ELSE CASE f = "factorial" -> factorial(args[1])
           [] f = "fib" -> fibonacci(args[1])
           [] f = "gcd" -> gcd(args[1], args[2])
           [] f = "lcm" -> lcm(args[1], args[2])
           [] f = "isPrime" -> is_prime(args[1])
           [] f = "sqrt" -> sqrt(args[1])
           [] f = "log" -> log(args[1])
           [] f = "log10" -> log10(args[1])
           [] f = "sin" -> sin(args[1])
           [] f = "cos" -> cos(args[1])
           [] f = "tan" -> tan(args[1])

ArgLists == UNION {[1..n -> Numbers] : n \in 0..MaxArgs}

\* the evaluator calls the function
Evaluate ==
    /\ result = Pending
    /\ result' = Apply(call.fn, call.args)
    /\ UNCHANGED <<call, cacheVars, decVars, traitVars>>

ExprInit ==
    /\ call \in [fn : FunctionIds, args : ArgLists]
    /\ result = Pending

ExprStart == CacheInit /\ DecIdle /\ TraitIdle /\ ExprInit

ExprNext == Evaluate

ExprSpec == ExprStart /\ [][ExprNext]_vars

\* C8 as stated: a call with the wrong number of arguments fails with
\* ArityMismatch, factorial of any negative number and the logarithm of any
\* non-positive number fail with DomainError.
C8_ArityAndDomain ==
    result # Pending =>
        /\ Len(call.args) # Arity(call.fn) => result = TypeError
        /\ (call.fn = "factorial" /\ Len(call.args) = 1 /\ call.args[1] < 0) =>
              result = ValueError
        /\ (call.fn = "log" /\ Len(call.args) = 1 /\ call.args[1] <= 0) =>
              result = ValueError

\* C8: a call returns a number only when the number of arguments is the arity;
\* a call with another number of arguments fails with ArityMismatch; factorial
\* truncates toward zero first, so it fails with DomainError exactly for the
\* arguments at or below -1; the logarithm of a non-positive number fails with
\* DomainError.
C8_TruncatedDomain ==
    result # Pending =>
        /\ Len(call.args) # Arity(call.fn) <=> result = TypeError
        /\ (call.fn = "factorial" /\ Len(call.args) = 1) =>
              (call.args[1] <= 0 - Denominator <=> result = ValueError)
        /\ (call.fn = "log" /\ Len(call.args) = 1) =>
              (call.args[1] <= 0 <=> result = ValueError)

\* factorial(-1) has failed with DomainError
C8_Witness ==
    /\ call.fn = "factorial"
    /\ call.args = <<0 - Denominator>>
    /\ result = ValueError

(***************************************************************************)
(* Properties of the rate providers                                        *)
(***************************************************************************)

\* a requester's fetch leaves _fetch_rates through the except clause or through
\* an exception that clause does not name
FetchFails(p) == pc[p] = "fetch" /\ pc'[p] \in {"done", "raised"}

\* C1: a call that begins within CACHE_DURATION of a successful fetch makes no
\* upstream call and returns the rate that fetch cached for its code.
C1_CachedWithinDuration ==
    \A p \in Requesters :
        expect[p] # NoResult =>
            /\ pc[p] \in {"check", "hit", "done"}
            /\ pc[p] = "done" => ret[p] = expect[p]

\* the cached rates had expired when requester p looked, and p went upstream
Refreshing(p) ==
    pc[p] = "fetch" /\ Truthy(cache) /\ (now[p] - cache_time) >= CACHE_DURATION

\* C2: when the cached rate has expired, never are two upstream fetches for
\* the same code in flight at once.
C2_SingleFlight ==
    \A p, q \in Requesters :
        (Refreshing(p) /\ Refreshing(q) /\ code[p] = code[q]) => p = q

\* C3: a call whose fetch fails returns the rate of the last successful fetch,
\* the unavailable result if there was none, and never an error.
C3_StaleOnFailure ==
    [][\A p \in Requesters :
          FetchFails(p) =>
              /\ pc'[p] = "done"
              /\ ret'[p] = IF lastOK.t >= 0 THEN RateResult(lastOK.rates, code[p])
                           ELSE Unavailable]_vars

\* C4: no call of a provider raises to its caller, whatever the upstream does.
C4_NeverRaises == \A p \in Requesters : pc[p] # "raised"

\* C9: once a call for a code has returned a rate, no later call for that code
\* returns the unavailable result.
C9_RateNeverLost ==
    [][\A p \in Requesters :
          (pc[p] # "done" /\ pc'[p] = "done" /\ gotRate[code[p]]) => IsRate(ret'[p])]_vars

\* C10: a failed fetch leaves _cache and _cache_time as they were and the call
\* returns the stale value; a call after expiry goes to the upstream again.
C10_FailureNotCached ==
    [][\A p \in Requesters :
          /\ FetchFails(p) =>
                /\ cache' = cache
                /\ cache_time' = cache_time
                /\ pc'[p] = "done"
                /\ ret'[p] = RateResult(cache, code[p])
          /\ (pc[p] = "check" /\ pc'[p] # "check"
                /\ (now[p] - cache_time) >= CACHE_DURATION) => pc'[p] = "fetch"]_vars

====
